---- MODULE Spec2Model ----
(***************************************************************************)
(* BangerUploader (src/src/main.jsx): the upload component's state, its    *)
(* event handlers, and the audio pipeline it runs before the classifier    *)
(* request: decode -> centred 10 s window -> downmix -> 16-bit PCM WAV ->   *)
(* POST -> verdict or error.                                               *)
(*                                                                         *)
(* One action is one JavaScript task: the code between two awaits runs to  *)
(* completion before any other handler or continuation does.               *)
(*                                                                         *)
(* Window times are JavaScript Numbers and are computed here as IEEE-754    *)
(* binary64 values, rounding included. Samples are dyadic rationals        *)
(* <<numerator, denominator>> small enough that every sum, halving and     *)
(* scaling the code performs on them is exact in binary32 and binary64.    *)
(* The decoded channels and the output of a clip are too long to hold as   *)
(* sequences: a channel is given by its length and a repeating pattern of  *)
(* samples, and written arrays are kept at their first and last ProbeWidth *)
(* indices.                                                                *)
(***************************************************************************)
EXTENDS Integers, Sequences, FiniteSets, TLC

\* ---------------------------------------------------------------------------
\* Arbitrary-precision naturals: a sequence of limbs in base 2^LimbBits, least
\* significant first, whose last limb (when there is one) is not 0. TLC's
\* integers are 32 bits wide; a binary64 significand is 53.
\* ---------------------------------------------------------------------------
LimbBits == 15

Base == 2 ^ LimbBits

\* body applied to the value of an expression, evaluated once
With(value, body(_)) ==
    CHOOSE result \in {body(bound) : bound \in {value}} : TRUE

RECURSIVE Trim(_)
Trim(limbs) ==
    IF limbs = <<>> THEN <<>>
    ELSE IF limbs[Len(limbs)] # 0 THEN limbs
    ELSE Trim(SubSeq(limbs, 1, Len(limbs) - 1))

RECURSIVE NatBig(_)
NatBig(nat) ==
    IF nat = 0 THEN <<>> ELSE <<nat % Base>> \o NatBig(nat \div Base)

\* defined for values below 2^31
RECURSIVE BigNat(_)
BigNat(limbs) ==
    IF limbs = <<>> THEN 0 ELSE limbs[1] + Base * BigNat(Tail(limbs))

RECURSIVE SmallBitLen(_)
SmallBitLen(nat) ==
    IF nat = 0 THEN 0 ELSE 1 + SmallBitLen(nat \div 2)

BitLen(limbs) ==
    IF limbs = <<>> THEN 0
    ELSE LimbBits * (Len(limbs) - 1) + SmallBitLen(limbs[Len(limbs)])

LimbAt(limbs, pos) ==
    IF pos >= 1 /\ pos <= Len(limbs) THEN limbs[pos] ELSE 0

RECURSIVE AddFrom(_, _, _, _)
AddFrom(lhs, rhs, pos, carry) ==
    IF pos > Len(lhs) /\ pos > Len(rhs)
    THEN IF carry = 0 THEN <<>> ELSE <<carry>>
    ELSE LET sum == LimbAt(lhs, pos) + LimbAt(rhs, pos) + carry
         IN  <<sum % Base>> \o AddFrom(lhs, rhs, pos + 1, sum \div Base)

BAdd(lhs, rhs) ==
    AddFrom(lhs, rhs, 1, 0)

RECURSIVE SubFrom(_, _, _, _)
SubFrom(lhs, rhs, pos, borrow) ==
    IF pos > Len(lhs) THEN <<>>
    ELSE LET diff == LimbAt(lhs, pos) - LimbAt(rhs, pos) - borrow
         IN  <<diff % Base>> \o SubFrom(lhs, rhs, pos + 1, IF diff < 0 THEN 1 ELSE 0)

\* lhs - rhs, for lhs >= rhs
BSub(lhs, rhs) ==
    Trim(SubFrom(lhs, rhs, 1, 0))

RECURSIVE CmpFrom(_, _, _)
CmpFrom(lhs, rhs, pos) ==
    IF pos = 0 THEN 0
    ELSE IF lhs[pos] > rhs[pos] THEN 1
    ELSE IF lhs[pos] < rhs[pos] THEN -1
    ELSE CmpFrom(lhs, rhs, pos - 1)

\* -1, 0, 1 as lhs is below, equal to, above rhs
BCmp(lhs, rhs) ==
    IF Len(lhs) > Len(rhs) THEN 1
    ELSE IF Len(lhs) < Len(rhs) THEN -1
    ELSE CmpFrom(lhs, rhs, Len(lhs))

RECURSIVE MulFrom(_, _, _, _)
MulFrom(limbs, factor, pos, carry) ==
    IF pos > Len(limbs)
    THEN IF carry = 0 THEN <<>> ELSE <<carry>>
    ELSE LET prod == limbs[pos] * factor + carry
         IN  <<prod % Base>> \o MulFrom(limbs, factor, pos + 1, prod \div Base)

\* limbs * factor, for 0 <= factor < Base
BMulNat(limbs, factor) ==
    IF factor = 0 THEN <<>> ELSE MulFrom(limbs, factor, 1, 0)

\* long division by divisor (0 < divisor < Base) of the limbs from pos upwards:
\* their quotient and the remainder
RECURSIVE DivHigh(_, _, _)
DivHigh(limbs, divisor, pos) ==
    IF pos > Len(limbs) THEN [q |-> <<>>, r |-> 0]
    ELSE LET high == DivHigh(limbs, divisor, pos + 1)
             part == high.r * Base + limbs[pos]
         IN  [q |-> <<part \div divisor>> \o high.q, r |-> part % divisor]

BDivNat(limbs, divisor) ==
    LET whole == DivHigh(limbs, divisor, 1)
    IN  [q |-> Trim(whole.q), r |-> whole.r]

\* limbs * 2^count
BShl(limbs, count) ==
    IF limbs = <<>> THEN <<>>
    ELSE [i \in 1..(count \div LimbBits) |-> 0]
         \o BMulNat(limbs, 2 ^ (count % LimbBits))

\* limbs \div 2^count
BShr(limbs, count) ==
    IF count \div LimbBits >= Len(limbs) THEN <<>>
    ELSE BDivNat(SubSeq(limbs, (count \div LimbBits) + 1, Len(limbs)),
                 2 ^ (count % LimbBits)).q

\* ---------------------------------------------------------------------------
\* A JavaScript Number (IEEE-754 binary64) of normal range:
\* (-1)^neg * m * 2^e with m of exactly MantissaBits bits, or zero.
\* ---------------------------------------------------------------------------
MantissaBits == 53

FZero == [neg |-> FALSE, m |-> <<>>, e |-> 0]

\* round to nearest, ties to even, of (sig + a fraction, nonzero iff sticky) * 2^ex
Round(neg, sig, ex, sticky) ==
    IF sig = <<>> THEN FZero
    ELSE IF BitLen(sig) <= MantissaBits
    THEN [neg |-> neg, m |-> BShl(sig, MantissaBits - BitLen(sig)),
          e |-> ex - (MantissaBits - BitLen(sig))]
    ELSE LET drop  == BitLen(sig) - MantissaBits
             kept  == BShr(sig, drop)
             guard == LimbAt(BShr(sig, drop - 1), 1) % 2
             rest  == sticky \/ BShl(BShr(sig, drop - 1), drop - 1) # sig
             up    == guard = 1 /\ (rest \/ kept[1] % 2 = 1)
             sig2  == IF up THEN BAdd(kept, <<1>>) ELSE kept
         IN  IF BitLen(sig2) > MantissaBits
             THEN [neg |-> neg, m |-> BShr(sig2, 1), e |-> ex + drop + 1]
             ELSE [neg |-> neg, m |-> sig2, e |-> ex + drop]

FFromNat(nat) ==
    Round(FALSE, NatBig(nat), 0, FALSE)

FNeg(x) ==
    IF x.m = <<>> THEN x ELSE [x EXCEPT !.neg = ~x.neg]

FAdd(x, y) ==
    IF x.m = <<>> THEN y
    ELSE IF y.m = <<>> THEN x
    ELSE LET e0 == IF x.e < y.e THEN x.e ELSE y.e
             mx == BShl(x.m, x.e - e0)
             my == BShl(y.m, y.e - e0)
             c  == BCmp(mx, my)
         IN  IF x.neg = y.neg THEN Round(x.neg, BAdd(mx, my), e0, FALSE)
             ELSE IF c = 0 THEN FZero
             ELSE IF c > 0 THEN Round(x.neg, BSub(mx, my), e0, FALSE)
             ELSE Round(y.neg, BSub(my, mx), e0, FALSE)

FSub(x, y) ==
    FAdd(x, FNeg(y))

FHalf(x) ==
    IF x.m = <<>> THEN x ELSE [x EXCEPT !.e = x.e - 1]

\* x * factor, for 0 <= factor < Base
FMulNat(x, factor) ==
    Round(x.neg, BMulNat(x.m, factor), x.e, FALSE)

\* the quotient num / den of two naturals, 0 < den < Base
FDivNat(num, den) ==
    LET shift == MantissaBits + SmallBitLen(den) + 1
        quot  == BDivNat(BShl(NatBig(num), shift), den)
    IN  Round(FALSE, quot.q, 0 - shift, quot.r # 0)

FLess(x, y) ==
    LET delta == FSub(x, y) IN delta.m # <<>> /\ delta.neg

FMax(x, y) ==
    IF FLess(x, y) THEN y ELSE x

FMin(x, y) ==
    IF FLess(y, x) THEN y ELSE x

\* Math.floor of a value x >= 0 below 2^31
FFloor(x) ==
    IF x.m = <<>> THEN 0
    ELSE IF x.e >= 0 THEN BigNat(BShl(x.m, x.e))
    ELSE BigNat(BShr(x.m, 0 - x.e))

\* ---------------------------------------------------------------------------
\* Samples: exact rationals <<numerator, denominator>> in lowest terms,
\* denominator > 0.
\* ---------------------------------------------------------------------------
RECURSIVE Gcd(_, _)
Gcd(p, q) ==
    IF q = 0 THEN p ELSE Gcd(q, p % q)

Abs(z) ==
    IF z < 0 THEN 0 - z ELSE z

Rat(num, den) ==
    LET g == Gcd(Abs(num), den) IN <<num \div g, den \div g>>

RatZero == <<0, 1>>

RatLess(p, q) ==
    p[1] * q[2] < q[1] * p[2]

RatAdd(p, q) ==
    Rat(p[1] * q[2] + q[1] * p[2], p[2] * q[2])

RatDivNat(p, nat) ==
    Rat(p[1], p[2] * nat)

RatMulNat(p, nat) ==
    Rat(p[1] * nat, p[2])

\* Math.min / Math.max of a sample and an integer
MathMin(int, p) ==
    IF RatLess(p, <<int, 1>>) THEN p ELSE <<int, 1>>

MathMax(int, p) ==
    IF RatLess(<<int, 1>>, p) THEN p ELSE <<int, 1>>

\* the integer part of a rational, rounded towards zero
Truncate(p) ==
    IF p[1] >= 0 THEN p[1] \div p[2] ELSE 0 - ((0 - p[1]) \div p[2])

\* Math.floor and Math.round (halves go up)
MathFloor(p) ==
    p[1] \div p[2]

MathRound(p) ==
    MathFloor(RatAdd(p, <<1, 2>>))

\* ---------------------------------------------------------------------------
\* Strings are sequences of one-character strings.
\* ---------------------------------------------------------------------------
UpperCase == <<"A", "B", "C", "D", "E", "F", "G", "H", "I", "J", "K", "L", "M",
               "N", "O", "P", "Q", "R", "S", "T", "U", "V", "W", "X", "Y", "Z">>

LowerCase == <<"a", "b", "c", "d", "e", "f", "g", "h", "i", "j", "k", "l", "m",
               "n", "o", "p", "q", "r", "s", "t", "u", "v", "w", "x", "y", "z">>

toLowerCase(str) ==
    [i \in 1..Len(str) |->
        IF \E k \in 1..Len(UpperCase) : UpperCase[k] = str[i]
        THEN LowerCase[CHOOSE k \in 1..Len(UpperCase) : UpperCase[k] = str[i]]
        ELSE str[i]]

startsWith(str, prefix) ==
    Len(str) >= Len(prefix) /\ SubSeq(str, 1, Len(prefix)) = prefix

\* String.prototype.charCodeAt for the characters of the WAV header's tags
charCodeAt(char) ==
    CASE char = " " -> 32
      [] char = "A" -> 65
      [] char = "E" -> 69
      [] char = "F" -> 70
      [] char = "I" -> 73
      [] char = "R" -> 82
      [] char = "V" -> 86
      [] char = "W" -> 87
      [] char = "a" -> 97
      [] char = "d" -> 100
      [] char = "f" -> 102
      [] char = "m" -> 109
      [] char = "t" -> 116

\* ---------------------------------------------------------------------------
\* The files a user can drop or select, and what the browser makes of them.
\* ---------------------------------------------------------------------------
NoFile == "null"

Files == {"notes.txt", "noise.ogg", "tick.wav", "clap.wav", "hall.flac",
          "loop.mp3", "sine.wav", "talk.aac"}

FileType(f) ==
    CASE f = "notes.txt" -> <<"t", "e", "x", "t", "/", "p", "l", "a", "i", "n">>
      [] f = "noise.ogg" -> <<"a", "u", "d", "i", "o", "/", "o", "g", "g">>
      [] f = "tick.wav"  -> <<"a", "u", "d", "i", "o", "/", "w", "a", "v">>
      [] f = "clap.wav"  -> <<"a", "u", "d", "i", "o", "/", "w", "a", "v">>
      [] f = "hall.flac" -> <<"a", "u", "d", "i", "o", "/", "f", "l", "a", "c">>
      [] f = "loop.mp3"  -> <<"a", "u", "d", "i", "o", "/", "m", "p", "e", "g">>
      [] f = "sine.wav"  -> <<"a", "u", "d", "i", "o", "/", "w", "a", "v">>
      [] f = "talk.aac"  -> <<"a", "u", "d", "i", "o", "/", "a", "a", "c">>

AudioPrefix == <<"a", "u", "d", "i", "o", "/">>

\* the files decodeAudioData rejects
Undecodable == {"noise.ogg"}

TargetRate == 22050

TargetDuration == 10

\* What decodeAudioData resolves with in an AudioContext of 22050 Hz: the
\* number of channels, the frames per channel at 22050 Hz, and each channel's
\* samples, channel c holding pattern[c + 1] repeated over its length.
\*   tick.wav   3 frames, mono, samples beyond [-1, 1]
\*   clap.wav   15 frames, stereo
\*   hall.flac  4 frames, three channels
\*   loop.mp3   220502 frames (10 s and 2 frames), stereo
\*   sine.wav   661500 frames (30 s), stereo, left 1.0 and right -1.0
\*   talk.aac   485104 frames (about 22 s), mono
decodeAudioData(f) ==
    CASE f = "tick.wav"  ->
            [numberOfChannels |-> 1, length |-> 3, sampleRate |-> TargetRate,
             pattern |-> << <<<<3, 2>>, <<-3, 2>>, <<1, 2>>>> >>]
      [] f = "clap.wav"  ->
            [numberOfChannels |-> 2, length |-> 15, sampleRate |-> TargetRate,
             pattern |-> << <<<<1, 1>>, <<1, 2>>, <<-1, 2>>, <<0, 1>>, <<-2, 1>>>>,
                            <<<<1, 1>>, <<0, 1>>, <<-1, 1>>, <<1, 2>>, <<-1, 1>>>> >>]
      [] f = "hall.flac" ->
            [numberOfChannels |-> 3, length |-> 4, sampleRate |-> TargetRate,
             pattern |-> << <<<<1, 2>>, <<-1, 1>>, <<0, 1>>, <<1, 1>>>>,
                            <<<<1, 2>>, <<1, 2>>, <<-1, 2>>, <<2, 1>>>>,
                            <<<<1, 1>>, <<-1, 2>>, <<1, 1>>, <<1, 1>>>> >>]
      [] f = "loop.mp3"  ->
            [numberOfChannels |-> 2, length |-> 220502, sampleRate |-> TargetRate,
             pattern |-> << <<<<1, 1>>, <<1, 2>>, <<-1, 2>>>>,
                            <<<<0, 1>>, <<1, 2>>, <<-1, 1>>>> >>]
      [] f = "sine.wav"  ->
            [numberOfChannels |-> 2, length |-> 661500, sampleRate |-> TargetRate,
             pattern |-> << <<<<1, 1>>>>, <<<<-1, 1>>>> >>]
      [] f = "talk.aac"  ->
            [numberOfChannels |-> 1, length |-> 485104, sampleRate |-> TargetRate,
             pattern |-> << <<<<1, 2>>, <<-1, 1>>, <<0, 1>>, <<3, 2>>, <<-1, 2>>>> >>]

\* AudioBuffer.getChannelData(channel)[index]: a typed array read, undefined
\* outside 0 .. length - 1
getChannelData(audioBuffer, channel, index) ==
    IF index >= 0 /\ index < audioBuffer.length
    THEN [defined |-> TRUE,
          value   |-> audioBuffer.pattern[channel + 1]
                          [(index % Len(audioBuffer.pattern[channel + 1])) + 1]]
    ELSE [defined |-> FALSE, value |-> RatZero]

\* read || 0
OrZero(read) ==
    IF read.defined /\ read.value # RatZero THEN read.value ELSE RatZero

\* AudioBuffer.duration: length / sampleRate as a Number
duration(audioBuffer) ==
    FDivNat(audioBuffer.length, audioBuffer.sampleRate)

\* ---------------------------------------------------------------------------
\* processAudio, lines 60-65: the window
\* ---------------------------------------------------------------------------
\* a window of the last 10 seconds: the halving of line 62 left out
startTimeNotHalved(dur) ==
    FMax(FZero, FSub(dur, FFromNat(TargetDuration)))

startTime(dur) ==
    FMax(FZero, FHalf(FSub(dur, FFromNat(TargetDuration))))

endTime(dur, start) ==
    FMin(dur, FAdd(start, FFromNat(TargetDuration)))

\* the length taken from the window's end alone
segmentLengthFromEnd(start, end) ==
    FFloor(FMulNat(end, TargetRate))

segmentLength(start, end) ==
    FFloor(FMulNat(FSub(end, start), TargetRate))

\* the first index rounded up to the next sample
startSampleRoundedUp(start) ==
    FFloor(FMulNat(start, TargetRate)) + 1

startSample(start) ==
    FFloor(FMulNat(start, TargetRate))

\* ---------------------------------------------------------------------------
\* The indices at which a written array of the given length is kept.
\* ---------------------------------------------------------------------------
ProbeWidth == 2

Probe(length) ==
    IF length <= 2 * ProbeWidth
    THEN 0..(length - 1)
    ELSE (0..(ProbeWidth - 1)) \cup ((length - ProbeWidth)..(length - 1))

\* ---------------------------------------------------------------------------
\* processAudio, lines 71-84: the downmix of output sample i
\* ---------------------------------------------------------------------------
\* the left channel alone, whatever the channel count
outputDataLeftOnly(audioBuffer, first, i) ==
    OrZero(getChannelData(audioBuffer, 0, first + i))

outputData(audioBuffer, first, i) ==
    IF audioBuffer.numberOfChannels = 1
    THEN OrZero(getChannelData(audioBuffer, 0, first + i))
    ELSE RatDivNat(RatAdd(OrZero(getChannelData(audioBuffer, 0, first + i)),
                          OrZero(getChannelData(audioBuffer, 1, first + i))), 2)

\* ---------------------------------------------------------------------------
\* audioBufferToWav, lines 100-139. The ArrayBuffer is kept as its byteLength,
\* its 44 header bytes, the 16-bit samples written at the probed indices and
\* the offset the write loop ends at.
\* ---------------------------------------------------------------------------
HeaderSize == 44

RiffOverhead == 36

MaxInt16 == 32767

\* byte k (0-based) of value written little-endian
LittleEndian(value, k) ==
    (value \div (256 ^ k)) % 256

getUint32(view, offset) ==
    view[offset + 1] + 256 * view[offset + 2] + 65536 * view[offset + 3]
        + 16777216 * view[offset + 4]

getUint16(view, offset) ==
    view[offset + 1] + 256 * view[offset + 2]

\* DataView.setInt16's conversion of a Number: truncate, then wrap modulo 2^16
ToInt16(number) ==
    LET wrapped == Truncate(number) % 65536
    IN  IF wrapped >= 32768 THEN wrapped - 65536 ELSE wrapped

\* the sample scaled without the clamp of line 133
PcmSampleUnclamped(sample) ==
    ToInt16(RatMulNat(sample, MaxInt16))

\* lines 133-134: one float sample as the 16-bit value stored
PcmSample(sample) ==
    ToInt16(RatMulNat(MathMax(-1, MathMin(1, sample)), MaxInt16))

\* ChunkSize counted as the whole file, the 8 bytes before it included
ChunkSizeWholeFile(length) ==
    HeaderSize + length * 2

\* line 116 and line 127: the two sizes the header declares
ChunkSize(length) ==
    RiffOverhead + length * 2

DataSize(length) ==
    length * 2

\* lines 115-127: the byte at each 0-based offset of the header, by the
\* writeString, setUint32 or setUint16 call that writes it
HeaderByte(offset, length, channels, sampleRate) ==
    CASE offset < 4  -> charCodeAt(<<"R", "I", "F", "F">>[offset + 1])
      [] offset >= 4  /\ offset < 8  -> LittleEndian(ChunkSize(length), offset - 4)
      [] offset >= 8  /\ offset < 12 -> charCodeAt(<<"W", "A", "V", "E">>[offset - 7])
      [] offset >= 12 /\ offset < 16 -> charCodeAt(<<"f", "m", "t", " ">>[offset - 11])
      [] offset >= 16 /\ offset < 20 -> LittleEndian(16, offset - 16)
      [] offset >= 20 /\ offset < 22 -> LittleEndian(1, offset - 20)
      [] offset >= 22 /\ offset < 24 -> LittleEndian(channels, offset - 22)
      [] offset >= 24 /\ offset < 28 -> LittleEndian(sampleRate, offset - 24)
      [] offset >= 28 /\ offset < 32 -> LittleEndian(sampleRate * channels * 2, offset - 28)
      [] offset >= 32 /\ offset < 34 -> LittleEndian(channels * 2, offset - 32)
      [] offset >= 34 /\ offset < 36 -> LittleEndian(16, offset - 34)
      [] offset >= 36 /\ offset < 40 -> charCodeAt(<<"d", "a", "t", "a">>[offset - 35])
      [] offset >= 40 -> LittleEndian(DataSize(length), offset - 40)

WavHeader(length, channels, sampleRate) ==
    [k \in 1..HeaderSize |-> HeaderByte(k - 1, length, channels, sampleRate)]

audioBufferToWav(buffer) ==
    [byteLength |-> HeaderSize + buffer.length * 2,
     header     |-> WavHeader(buffer.length, buffer.numberOfChannels, buffer.sampleRate),
     samples    |-> [i \in Probe(buffer.length) |-> PcmSample(buffer.samples[i])],
     offset     |-> HeaderSize + 2 * buffer.length]

\* ---------------------------------------------------------------------------
\* processAudio, lines 60-88: from the decoded AudioBuffer to the WAV blob.
\* createBuffer rejects a length of 0 with a NotSupportedError.
\* ---------------------------------------------------------------------------
NoAudio == [made |-> FALSE]

processAudio(audioBuffer) ==
    With(duration(audioBuffer), LAMBDA dur :
    With(startTime(dur), LAMBDA start :
    With(endTime(dur, start), LAMBDA end :
    With(segmentLength(start, end), LAMBDA length :
    With(startSample(start), LAMBDA first :
    With([length |-> length, numberOfChannels |-> 1, sampleRate |-> TargetRate,
          samples |-> [i \in Probe(length) |-> outputData(audioBuffer, first, i)]],
         LAMBDA processedBuffer :
        IF length = 0
        THEN [made |-> FALSE, error |-> "NotSupportedError"]
        ELSE [made |-> TRUE, duration |-> dur, startTime |-> start, endTime |-> end,
              segmentLength |-> length, startSample |-> first,
              outputData |-> processedBuffer.samples,
              wav |-> audioBufferToWav(processedBuffer)]))))))

Decodable ==
    {f \in Files : startsWith(FileType(f), AudioPrefix) /\ f \notin Undecodable}

Processed ==
    [f \in Decodable |-> processAudio(decodeAudioData(f))]

\* ---------------------------------------------------------------------------
\* Errors: name and message. processAudio's catch (lines 90-93) logs what it
\* caught and throws a new Error.
\* ---------------------------------------------------------------------------
NoError == [name |-> "", message |-> <<"", 0>>]

Message(text) == <<text, 0>>

\* a catch that passes on the error it caught
processAudioRethrow(error) ==
    [name |-> error, message |-> Message(error)]

processAudioCatch(error) ==
    [name |-> "Error", message |-> Message("Failed to process audio file")]

\* ---------------------------------------------------------------------------
\* The classifier's answers, and displayResults (lines 188-207).
\* ---------------------------------------------------------------------------
Bangers == <<"b", "a", "n", "g", "e", "r", "s">>

Predictions == {Bangers,
                <<"B", "a", "n", "g", "e", "r", "s">>,
                <<"n", "o", "t", "_", "b", "a", "n", "g", "e", "r", "s">>}

Scores == {<<1, 5>>, <<1, 2>>, <<9, 10>>}

\* a JSON body: an object with prediction and score, or one without them
Results ==
    [hasPrediction : {TRUE}, prediction : Predictions, score : Scores]
    \cup {[hasPrediction |-> FALSE, prediction |-> <<>>, score |-> <<0, 1>>]}

NoResult == [hasPrediction |-> FALSE, prediction |-> <<>>, score |-> RatZero]

\* the verdict with the two tests of line 189 joined by "and"
isBangerBoth(result) ==
    toLowerCase(result.prediction) = Bangers /\ RatLess(<<1, 2>>, result.score)

isBanger(result) ==
    toLowerCase(result.prediction) = Bangers \/ RatLess(<<1, 2>>, result.score)

scorePercent(result) ==
    MathRound(RatMulNat(result.score, 100))

\* the alert displayResults shows; reading prediction.toLowerCase of a body
\* without a prediction throws a TypeError before any alert
displayResults(result) ==
    IF ~result.hasPrediction
    THEN [threw |-> TRUE,
          error |-> [name |-> "TypeError",
                     message |-> Message("Cannot read properties of undefined")]]
    ELSE [threw |-> FALSE,
          alert |-> [kind |-> "verdict", banger |-> isBanger(result),
                     prediction |-> result.prediction,
                     percent |-> scorePercent(result), message |-> Message("")]]

\* ---------------------------------------------------------------------------
\* The component's state.
\*   file, isDragOver, isProcessing   the useState values (lines 11-13)
\*   rendered    the file and isProcessing of the last committed render: what
\*               the page shows and what handleAnalyze's closure reads
\*   runs        the handleAnalyze calls suspended at an await, oldest first
\*   finished    the last handleAnalyze call that returned
\* ---------------------------------------------------------------------------
VARIABLES file, isDragOver, isProcessing, rendered, runs, finished

vars == <<file, isDragOver, isProcessing, rendered, runs, finished>>

\* the most handleAnalyze calls suspended at once
MaxInFlight == 2

\* isProcessing in a run is the value the run last passed to setIsProcessing
NewRun(f) ==
    [file |-> f, pc |-> "arrayBuffer", isProcessing |-> TRUE,
     audio |-> NoAudio, processed |-> FALSE,
     posts |-> 0, response |-> "none", status |-> 0, json |-> "none",
     result |-> NoResult, cause |-> "", caught |-> NoError, alerts |-> <<>>]

NoRun == [NewRun(NoFile) EXCEPT !.pc = "none", !.isProcessing = FALSE]

Init ==
    /\ file = NoFile
    /\ isDragOver = FALSE
    /\ isProcessing = FALSE
    /\ rendered = [file |-> NoFile, isProcessing |-> FALSE]
    /\ runs = <<>>
    /\ finished = NoRun

\* what a drag or a file dialog can deliver: a file, or none
Items == Files \cup {NoFile}

Accepted(item) ==
    item # NoFile /\ startsWith(FileType(item), AudioPrefix)

\* lines 17-20
handleDragOver ==
    /\ isDragOver' = TRUE
    /\ UNCHANGED <<file, isProcessing, rendered, runs, finished>>

\* lines 22-25
handleDragLeave ==
    /\ isDragOver' = FALSE
    /\ UNCHANGED <<file, isProcessing, rendered, runs, finished>>

\* lines 27-36; the drop is a discrete event, its update is rendered before
\* the next event is handled
handleDrop(droppedFile) ==
    /\ isDragOver' = FALSE
    /\ IF Accepted(droppedFile)
       THEN /\ file' = droppedFile
            /\ rendered' = [rendered EXCEPT !.file = droppedFile]
       ELSE UNCHANGED <<file, rendered>>
    /\ UNCHANGED <<isProcessing, runs, finished>>

\* lines 39-46
handleFileSelect(selectedFile) ==
    /\ IF Accepted(selectedFile)
       THEN /\ file' = selectedFile
            /\ rendered' = [rendered EXCEPT !.file = selectedFile]
       ELSE UNCHANGED <<file, rendered>>
    /\ UNCHANGED <<isDragOver, isProcessing, runs, finished>>

\* a button shown whenever a file is selected
AnalyzeButtonRenderedWithFile ==
    rendered.file # NoFile

\* lines 250-252: the Analyze button is on the page
AnalyzeButtonRendered ==
    rendered.file # NoFile /\ ~rendered.isProcessing

\* lines 145-152, to the first await (audioFile.arrayBuffer() in processAudio);
\* the click is a discrete event, setIsProcessing(true) is rendered before the
\* next event is handled
handleAnalyze(closureFile) ==
    IF closureFile = NoFile
    THEN UNCHANGED vars
    ELSE /\ Len(runs) < MaxInFlight
         /\ isProcessing' = TRUE
         /\ rendered' = [rendered EXCEPT !.isProcessing = TRUE]
         /\ runs' = Append(runs, NewRun(closureFile))
         /\ UNCHANGED <<file, isDragOver, finished>>

ClickAnalyze ==
    /\ AnalyzeButtonRendered
    /\ handleAnalyze(rendered.file)

\* handleAnalyze called while no file is selected (the page has no button then)
AnalyzeWithoutFile ==
    /\ rendered.file = NoFile
    /\ handleAnalyze(rendered.file)

Remove(seq, i) ==
    SubSeq(seq, 1, i - 1) \o SubSeq(seq, i + 1, Len(seq))

\* the run as kept once it has returned
Returned(run) ==
    [run EXCEPT !.pc = "done", !.file = NoFile, !.audio = NoAudio]

ErrorAlert(error) ==
    [kind |-> "error", banger |-> FALSE, prediction |-> <<>>, percent |-> 0,
     message |-> error.message]

\* alert(): the dialog, and the value of the flag as the run has set it
Show(run, alert) ==
    [run EXCEPT !.alerts = Append(@, [alert |-> alert, isProcessing |-> run.isProcessing])]

\* lines 170 and 176
setIsProcessing(run, value) ==
    [run EXCEPT !.isProcessing = value]

\* lines 177-181
Caught(run, error) ==
    Show([run EXCEPT !.caught = error], ErrorAlert(error))

\* a catch that shows the error and leaves the flag as it is
handleAnalyzeCatchNoReset(i, run, error) ==
    /\ runs' = Remove(runs, i)
    /\ finished' = Returned(Caught(run, error))
    /\ UNCHANGED <<file, isDragOver, isProcessing, rendered>>

\* lines 175-182: handleAnalyze's catch
handleAnalyzeCatch(i, run, error) ==
    /\ isProcessing' = setIsProcessing(run, FALSE).isProcessing
    /\ runs' = Remove(runs, i)
    /\ finished' = Returned(Caught(setIsProcessing(run, FALSE), error))
    /\ UNCHANGED <<file, isDragOver, rendered>>

\* line 56 settles and line 57 runs: arrayBuffer() resolves or rejects, and
\* the AudioContext constructor returns or throws
arrayBufferSettled(i, outcome) ==
    /\ runs[i].pc = "arrayBuffer"
    /\ IF outcome = "resolved"
       THEN /\ runs' = [runs EXCEPT ![i].pc = "decodeAudioData"]
            /\ UNCHANGED <<file, isDragOver, isProcessing, rendered, finished>>
       ELSE handleAnalyzeCatch(i, [runs[i] EXCEPT !.cause = outcome],
                               processAudioCatch(outcome))

\* line 58 settles: on success lines 60-88 and 153-163 run, up to the fetch
decodeAudioDataSettled(i) ==
    /\ runs[i].pc = "decodeAudioData"
    /\ IF runs[i].file \in Undecodable
       THEN handleAnalyzeCatch(i, [runs[i] EXCEPT !.cause = "EncodingError"],
                               processAudioCatch("EncodingError"))
       ELSE IF ~Processed[runs[i].file].made
       THEN handleAnalyzeCatch(i, [runs[i] EXCEPT !.cause = Processed[runs[i].file].error],
                               processAudioCatch(Processed[runs[i].file].error))
       ELSE /\ runs' = [runs EXCEPT ![i] =
                           [@ EXCEPT !.pc = "fetch", !.audio = Processed[runs[i].file],
                                     !.processed = TRUE, !.posts = @ + 1]]
            /\ UNCHANGED <<file, isDragOver, isProcessing, rendered, finished>>

Statuses == {200, 204, 404, 500}

\* a test that takes every response for a success
ResponseOkAnyStatus(status) ==
    status >= 100

\* Response.ok
ResponseOk(status) ==
    status >= 200 /\ status <= 299

\* lines 160-169: the fetch rejects, or resolves with a response
fetchSettled(i, response, status) ==
    /\ runs[i].pc = "fetch"
    /\ IF response = "rejected"
       THEN handleAnalyzeCatch(i, [runs[i] EXCEPT !.response = "rejected"],
                               [name |-> "TypeError", message |-> Message("Failed to fetch")])
       ELSE IF ~ResponseOk(status)
       THEN handleAnalyzeCatch(i, [runs[i] EXCEPT !.response = "received", !.status = status],
                               [name |-> "Error",
                                message |-> <<"API request failed with status: ", status>>])
       ELSE /\ runs' = [runs EXCEPT ![i] =
                           [@ EXCEPT !.pc = "json", !.response = "received",
                                     !.status = status]]
            /\ UNCHANGED <<file, isDragOver, isProcessing, rendered, finished>>

\* lines 169-173: response.json() rejects, or resolves and the result is shown
jsonSettled(i, readable, result) ==
    /\ runs[i].pc = "json"
    /\ IF ~readable
       THEN handleAnalyzeCatch(i, [runs[i] EXCEPT !.json = "unreadable"],
                               [name |-> "SyntaxError",
                                message |-> Message("Unexpected token in JSON")])
       ELSE IF displayResults(result).threw
       THEN handleAnalyzeCatch(i,
                setIsProcessing([runs[i] EXCEPT !.json = "read", !.result = result], FALSE),
                displayResults(result).error)
       ELSE /\ isProcessing' = FALSE
            /\ runs' = Remove(runs, i)
            /\ finished' = Returned(Show(
                   setIsProcessing([runs[i] EXCEPT !.json = "read", !.result = result], FALSE),
                   displayResults(result).alert))
            /\ UNCHANGED <<file, isDragOver, rendered>>

\* React commits the render a setIsProcessing(false) outside an event handler
\* asked for
Render ==
    /\ rendered.isProcessing # isProcessing
    /\ rendered' = [rendered EXCEPT !.isProcessing = isProcessing]
    /\ UNCHANGED <<file, isDragOver, isProcessing, runs, finished>>

Next ==
    \/ handleDragOver
    \/ handleDragLeave
    \/ \E item \in Items : handleDrop(item)
    \/ \E item \in Items : handleFileSelect(item)
    \/ ClickAnalyze
    \/ AnalyzeWithoutFile
    \/ \E i \in 1..Len(runs) :
          \E outcome \in {"resolved", "NotReadableError", "NotSupportedError"} :
              arrayBufferSettled(i, outcome)
    \/ \E i \in 1..Len(runs) : decodeAudioDataSettled(i)
    \/ \E i \in 1..Len(runs) :
          \/ fetchSettled(i, "rejected", 0)
          \/ \E status \in Statuses : fetchSettled(i, "received", status)
    \/ \E i \in 1..Len(runs) :
          \/ jsonSettled(i, FALSE, CHOOSE r \in Results : TRUE)
          \/ \E result \in Results : jsonSettled(i, TRUE, result)
    \/ Render

Spec == Init /\ [][Next]_vars

\* ===========================================================================
\* Properties
\* ===========================================================================

\* the handleAnalyze calls whose audio has been processed: suspended at the
\* fetch or at response.json(), the WAV blob in the request
Encoded == {i \in 1..Len(runs) : runs[i].audio.made}

\* C1: the WAV buffer of n samples is 44 + 2n bytes long, its header declares
\* ChunkSize (offset 4) = 36 + 2n and DataSize (offset 40) = 2n, the declared
\* data size is the length of the payload after the header, which the write
\* loop fills exactly; for n = 220500: 441000, 441036 and 441044.
C1_WavSizes ==
    \A i \in Encoded :
        LET n   == runs[i].audio.segmentLength
            wav == runs[i].audio.wav
        IN  /\ wav.byteLength = 44 + 2 * n
            /\ getUint32(wav.header, 4) = 36 + 2 * n
            /\ getUint32(wav.header, 40) = 2 * n
            /\ getUint32(wav.header, 40) = wav.byteLength - 44
            /\ getUint32(wav.header, 4) = wav.byteLength - 8
            /\ wav.offset = wav.byteLength
            /\ n = 220500 =>
                  /\ getUint32(wav.header, 40) = 441000
                  /\ getUint32(wav.header, 4) = 441036
                  /\ wav.byteLength = 441044

C1_Witness ==
    \E i \in Encoded :
        /\ runs[i].audio.segmentLength = 220500
        /\ getUint32(runs[i].audio.wav.header, 40) = 441000
        /\ runs[i].audio.wav.byteLength = 441044

\* C2: every sample is clamped to [-1, 1] before it is scaled by 32767 and
\* stored as a signed 16-bit value: a sample >= 1 is stored as 32767, a sample
\* <= -1 as -32767 or -32768, and no stored value has the opposite sign of
\* its sample.
C2_ClampBeforeScale ==
    \A i \in Encoded :
        \A k \in DOMAIN runs[i].audio.outputData :
            LET sample == runs[i].audio.outputData[k]
                stored == runs[i].audio.wav.samples[k]
            IN  /\ stored >= -32768 /\ stored <= 32767
                /\ sample[1] >= sample[2] => stored = 32767
                /\ sample[1] <= 0 - sample[2] => stored \in {-32767, -32768}
                /\ sample[1] > 0 => stored >= 0
                /\ sample[1] < 0 => stored <= 0
                /\ sample[1] = 0 => stored = 0

C2_Witness ==
    \E i \in Encoded :
        \E k, l \in DOMAIN runs[i].audio.outputData :
            /\ runs[i].audio.outputData[k] = <<3, 2>>
            /\ runs[i].audio.wav.samples[k] = 32767
            /\ runs[i].audio.outputData[l] = <<-3, 2>>
            /\ runs[i].audio.wav.samples[l] = -32767

\* C3: the output has floor((end - start) * 22050) samples: 220500, within
\* one sample, when the decoded duration is at least 10 seconds; and when it
\* is less, start = 0, end = duration and the length is floor(duration * 22050).
C3_OutputLength ==
    \A i \in Encoded :
        LET a == runs[i].audio
        IN  /\ a.segmentLength = FFloor(FMulNat(FSub(a.endTime, a.startTime), 22050))
            /\ ~FLess(a.duration, FFromNat(10)) =>
                  /\ a.segmentLength >= 22050 * 10 - 1
                  /\ a.segmentLength <= 22050 * 10 + 1
            /\ FLess(a.duration, FFromNat(10)) =>
                  /\ a.startTime = FZero
                  /\ a.endTime = a.duration
                  /\ a.segmentLength = FFloor(FMulNat(a.duration, 22050))

\* a source of about 22 s whose window comes out one sample short of 220500,
\* and (in another run) a source shorter than 10 s
C3_Witness ==
    \E i \in Encoded :
        /\ runs[i].file = "talk.aac"
        /\ runs[i].audio.segmentLength = 220499
        /\ finished.pc = "done"

\* C4 as stated: for every duration >= 10 s, start + end == duration.
C4_StartPlusEndIsDuration ==
    \A i \in Encoded :
        LET a == runs[i].audio
        IN  ~FLess(a.duration, FFromNat(10)) =>
                FAdd(a.startTime, a.endTime) = a.duration

\* C4 as amended: for every duration >= 10 s, start is exactly
\* (duration - 10) / 2, so that 2 * start + 10 == duration, and end is
\* start + 10 rounded to the nearest Number; start + end, rounded in turn,
\* is within one unit in the last place of duration.
C4_CentredUpToRounding ==
    \A i \in Encoded :
        LET a    == runs[i].audio
            ulp  == Round(FALSE, <<1>>, a.duration.e, FALSE)
            diff == FSub(FAdd(a.startTime, a.endTime), a.duration)
        IN  ~FLess(a.duration, FFromNat(10)) =>
                /\ a.startTime = FHalf(FSub(a.duration, FFromNat(10)))
                /\ FAdd(FAdd(a.startTime, a.startTime), FFromNat(10)) = a.duration
                /\ a.endTime = FAdd(a.startTime, FFromNat(10))
                /\ ~FLess(a.duration, a.endTime)
                /\ ~FLess(ulp, diff)
                /\ ~FLess(ulp, FNeg(diff))

C4_Witness ==
    \E i \in Encoded :
        /\ runs[i].audio.startSample = 1
        /\ ~FLess(runs[i].audio.duration, FFromNat(10))
        /\ FAdd(runs[i].audio.startTime, runs[i].audio.endTime) # runs[i].audio.duration

\* C5: output sample k of a one-channel source is the source sample at
\* startSample + k; of a source with two or more channels it is
\* (left + right) / 2 at startSample + k over the first two channels, the
\* other channels having no effect; a read outside the channel counts as 0.
\* Left 1.0 and right -1.0 at every sample give 0.0 at every output sample.
C5_Downmix ==
    \A i \in Encoded :
        \A k \in DOMAIN runs[i].audio.outputData :
            LET source == decodeAudioData(runs[i].file)
                at     == runs[i].audio.startSample + k
                in(c)  == IF at >= 0 /\ at < source.length
                          THEN source.pattern[c][(at % Len(source.pattern[c])) + 1]
                          ELSE <<0, 1>>
                out    == runs[i].audio.outputData[k]
            IN  /\ source.numberOfChannels = 1 => out = in(1)
                /\ source.numberOfChannels >= 2 =>
                      out[1] * 2 * in(1)[2] * in(2)[2]
                          = (in(1)[1] * in(2)[2] + in(2)[1] * in(1)[2]) * out[2]
                /\ runs[i].file = "sine.wav" => out = <<0, 1>>

\* a stereo source read from startSample 1 on, and a three-channel source
C5_Witness ==
    \E i \in Encoded :
        /\ runs[i].file = "loop.mp3"
        /\ runs[i].audio.startSample = 1
        /\ runs[i].audio.outputData[220498] = <<-3, 4>>
        /\ finished.pc = "done"

\* C6: the verdict shown is "banger" if and only if the prediction is
\* 'bangers' in any letter case or the score is strictly greater than 0.5;
\* {prediction: "not_bangers", score: 0.9} is shown as a banger, and "not a
\* banger" is shown only for another label with a score <= 0.5.
C6_BangerRule ==
    finished.alerts # <<>> /\ finished.alerts[1].alert.kind = "verdict" =>
        LET result   == finished.result
            positive == result.prediction \in
                            {<<"b", "a", "n", "g", "e", "r", "s">>,
                             <<"B", "a", "n", "g", "e", "r", "s">>}
            high     == result.score[1] * 2 > result.score[2]
            shown    == finished.alerts[1].alert
        IN  /\ shown.banger <=> (positive \/ high)
            /\ shown.prediction = result.prediction
            /\ result.prediction = <<"n", "o", "t", "_", "b", "a", "n", "g", "e", "r", "s">>
                   /\ result.score = <<9, 10>> => shown.banger
            /\ ~shown.banger => ~positive /\ result.score[1] * 2 <= result.score[2]

C6_Witness ==
    /\ finished.alerts # <<>>
    /\ finished.alerts[1].alert.kind = "verdict"
    /\ finished.result.prediction = <<"n", "o", "t", "_", "b", "a", "n", "g", "e", "r", "s">>
    /\ finished.result.score = <<9, 10>>
    /\ finished.alerts[1].alert.banger

\* C7: a handleAnalyze call that has returned has shown exactly one dialog, a
\* verdict or an error, and one still suspended has shown none. A verdict is
\* shown only after the audio was processed, a 2xx response received and its
\* body read; a processing failure, a rejected fetch, a non-2xx status and an
\* unreadable body each end in the error dialog; no call posts more than once.
C7_OneOutcome ==
    /\ \A i \in 1..Len(runs) : runs[i].alerts = <<>> /\ runs[i].posts <= 1
    /\ finished.pc = "done" =>
          /\ Len(finished.alerts) = 1
          /\ finished.alerts[1].alert.kind \in {"verdict", "error"}
          /\ finished.posts <= 1
          /\ finished.alerts[1].alert.kind = "verdict" =>
                /\ finished.processed
                /\ finished.posts = 1
                /\ finished.response = "received"
                /\ finished.status >= 200 /\ finished.status <= 299
                /\ finished.json = "read"
          /\ \/ ~finished.processed
             \/ finished.response = "rejected"
             \/ finished.response = "received"
                   /\ ~(finished.status >= 200 /\ finished.status <= 299)
             \/ finished.json = "unreadable"
             => finished.alerts[1].alert.kind = "error"

\* a call that ended in the error dialog on a 500 response, posted once
C7_Witness ==
    /\ finished.pc = "done"
    /\ finished.status = 500
    /\ finished.posts = 1
    /\ Len(finished.alerts) = 1
    /\ finished.alerts[1].alert.kind = "error"

\* C8: at most one handleAnalyze call is suspended at any time, whatever the
\* order of clicks, drops, selections, renders and completions.
C8_OneInFlight ==
    Len(runs) <= 1

\* an analysis in flight, a render pending, and another file dropped meanwhile
C8_Witness ==
    /\ Len(runs) = 1
    /\ runs[1].pc = "fetch"
    /\ file # runs[1].file
    /\ finished.pc = "done"
    /\ rendered.file # NoFile

\* C9 as stated: the failure of processAudio reaches handleAnalyze with its
\* kind: a decode failure as a DecodeError, an unsupported format as an
\* UnsupportedFormatError.
C9_KindPreserved ==
    finished.pc = "done" =>
        /\ finished.cause = "EncodingError" =>
              finished.caught.name \in {"DecodeError", "EncodingError"}
        /\ finished.cause = "NotSupportedError" =>
              finished.caught.name \in {"UnsupportedFormatError", "NotSupportedError"}

\* C9 as amended: every failure inside processAudio, whatever its kind (the
\* file unreadable, the format unsupported, the bytes undecodable), reaches
\* handleAnalyze as the same Error('Failed to process audio file'); the kind
\* is not preserved, the failure is shown in the error dialog and nothing is
\* posted.
C9_GenericFailure ==
    finished.pc = "done" /\ finished.cause # "" =>
        /\ finished.cause \in {"NotReadableError", "NotSupportedError", "EncodingError"}
        /\ finished.caught.name = "Error"
        /\ finished.caught.message = <<"Failed to process audio file", 0>>
        /\ Len(finished.alerts) = 1
        /\ finished.alerts[1].alert.kind = "error"
        /\ finished.alerts[1].alert.message = <<"Failed to process audio file", 0>>
        /\ finished.posts = 0
        /\ ~finished.processed

C9_Witness ==
    /\ finished.pc = "done"
    /\ finished.cause = "EncodingError"
    /\ finished.caught.name = "Error"

\* C10: while a handleAnalyze call is suspended isProcessing is true; every
\* call sets it to false before it shows its dialog, so that with no call
\* suspended isProcessing is false and, once rendered, the Analyze button is
\* on the page again; and with no file selected nothing has ever started.
C10_FlagTracksRun ==
    /\ runs # <<>> => isProcessing /\ rendered.isProcessing
    /\ \A i \in 1..Len(runs) : runs[i].file # NoFile
    /\ finished.pc = "done" =>
          \A k \in 1..Len(finished.alerts) : ~finished.alerts[k].isProcessing
    /\ runs = <<>> =>
          /\ ~isProcessing
          /\ file # NoFile /\ rendered.isProcessing = isProcessing =>
                rendered.file # NoFile /\ ~rendered.isProcessing
    /\ file = NoFile =>
          /\ runs = <<>>
          /\ finished = NoRun
          /\ ~isProcessing /\ ~rendered.isProcessing

\* a call that failed on the network has returned and the button is back
C10_Witness ==
    /\ finished.pc = "done"
    /\ finished.response = "rejected"
    /\ runs = <<>>
    /\ ~isProcessing
    /\ rendered.file # NoFile /\ ~rendered.isProcessing

\* C11: every index the copy loops read, startSample + k for 0 <= k <
\* segmentLength, lies inside the decoded channel: startSample >= 0 and
\* startSample + segmentLength <= the channel's length, so that no read is
\* undefined and the "|| 0" fallback never stands in for a missing sample.
C11_ReadsInsideChannel ==
    \A i \in Encoded :
        LET source == decodeAudioData(runs[i].file)
            a      == runs[i].audio
            used   == IF source.numberOfChannels = 1 THEN {0} ELSE {0, 1}
        IN  /\ a.startSample >= 0
            /\ a.segmentLength >= 1
            /\ a.startSample + a.segmentLength <= source.length
            /\ DOMAIN a.outputData = Probe(a.segmentLength)
            /\ \A k \in DOMAIN a.outputData :
                  /\ a.startSample + k >= 0
                  /\ a.startSample + k < source.length
                  /\ \A channel \in used :
                        getChannelData(source, channel, a.startSample + k).defined

\* a window whose last read is the channel's last sample
C11_Witness ==
    \E i \in Encoded :
        /\ runs[i].audio.startSample + runs[i].audio.segmentLength
               = decodeAudioData(runs[i].file).length
        /\ (runs[i].audio.segmentLength - 1) \in DOMAIN runs[i].audio.outputData
        /\ getChannelData(decodeAudioData(runs[i].file), 0,
                          runs[i].audio.startSample + runs[i].audio.segmentLength - 1).defined

====
